---- MODULE Spec2Model ----
(***************************************************************************)
(* A model of the three translation scripts:                               *)
(*   translate.py            translate_file      (bulk pass)               *)
(*   translation_sync.py     translate_sync      (incremental sync pass)   *)
(*   translation_checker.py  check_translations  (QA pass)                 *)
(* A JSON object (a Python dict, insertion ordered, keys unique) is a      *)
(* sequence of <<key, value>> pairs with pairwise distinct keys.           *)
(***************************************************************************)
EXTENDS Naturals, Sequences, FiniteSets, TLC

\* ------------------------------------------------------------------ bounds
\* The largest number of keys of a String Table of the sync, bulk and QA runs.
MaxKeys == 2
\* The largest chunk size of the sync, bulk and QA runs.
MaxChunk == 2
\* The largest mapping handed to chunk_dict alone.
MaxLen == 4
\* The largest number of keys of the String Table of a bulk run.
MaxBulkKeys == 3
\* The largest chunk size handed to chunk_dict alone.
MaxSize == 3

AllKeys == <<"a", "b", "c", "d", "e", "f">>
KeyAt(i) == AllKeys[i]
\* The target locales of a run, in the order of target_languages.
Langs == <<"fr", "es">>

Min(a, b) == IF a < b THEN a ELSE b

\* ------------------------------------------------------------ Python dicts
\* d.keys()
Keys(d) == {d[i][1] : i \in 1..Len(d)}
\* k in d
Has(d, k) == \E i \in 1..Len(d) : d[i][1] = k
\* d[k], for k in d
Get(d, k) == d[CHOOSE i \in 1..Len(d) : d[i][1] = k][2]
\* d[k] = v: an existing key keeps its position, a new key goes last
Put(d, k, v) ==
    IF Has(d, k)
    THEN [i \in 1..Len(d) |-> IF d[i][1] = k THEN <<k, v>> ELSE d[i]]
    ELSE Append(d, <<k, v>>)
\* d.update(e), also dict(e) as Update(<<>>, e)
RECURSIVE Update(_, _)
Update(d, e) ==
    IF e = <<>> THEN d
    ELSE Update(Put(d, Head(e)[1], Head(e)[2]), Tail(e))
\* a well-formed dict: no key twice
IsDict(d) == \A i, j \in 1..Len(d) : d[i][1] = d[j][1] => i = j

\* items[a:b] for 0 <= a <= b (Python slice, 0-based, b exclusive, clipped)
SliceOffByOne(s, a, b) == SubSeq(s, a + 1, Min(b, Len(s)) - 1)
Slice(s, a, b) == SubSeq(s, a + 1, Min(b, Len(s)))

\* list(range(start, stop, step)) for step > 0
RECURSIVE Range(_, _, _)
Range(start, stop, step) ==
    IF start < stop THEN <<start>> \o Range(start + step, stop, step) ELSE <<>>

\* list(chunk_dict(data, chunk_size))
chunk_dict(data, size) ==
    LET items == data
        starts == Range(0, Len(items), size)
    IN  [j \in 1..Len(starts) |->
            Update(<<>>, Slice(items, starts[j], starts[j] + size))]

RECURSIVE Concat(_)
Concat(ss) == IF ss = <<>> THEN <<>> ELSE Head(ss) \o Concat(Tail(ss))

\* ------------------------------------------------------- String Table values
\* "key": "text"
Plain(k) == [isdict |-> FALSE, update |-> FALSE, hastext |-> FALSE, text |-> "en_" \o k]
\* "key": {"text": "text", "update": true}
Directive(k) == [isdict |-> TRUE, update |-> TRUE, hastext |-> TRUE, text |-> "new_" \o k]
\* "key": {"update": true}
BareDirective(k) == [isdict |-> TRUE, update |-> TRUE, hastext |-> FALSE, text |-> ""]
\* "key": {"text": "text", "update": false}
Inactive(k) == [isdict |-> TRUE, update |-> FALSE, hastext |-> TRUE, text |-> "new_" \o k]

ValuesOf(k) == {Plain(k), Directive(k), BareDirective(k), Inactive(k)}

\* what the Translation Client answers for one source text when it honours its contract
Tr(text, lang) == lang \o ":" \o text

\* ------------------------------------------------------------------- state
VARIABLES
    pc,              \* where the running script is
    arg_data,        \* chunk_dict called alone: its data argument
    arg_size,        \* chunk_dict called alone: its chunk_size argument
    ret_chunks,      \* chunk_dict called alone: list(chunk_dict(...))
    en_data,         \* en.json as loaded, and as written back by translate_sync
    en_file,         \* en.json on disk
    files,           \* {lang}.json on disk: [exists, data]
    temp_files,      \* {lang}.temp.json on disk: [exists, data]
    artifacts,       \* error logs on disk: <<lang, chunk number>>, 0 for {lang}_parse_error.log
    chunk_size,      \* the chunk_size argument of the run
    updates,         \* translate_sync: updates
    new_keys,        \* translate_sync: new_keys
    lang_i,          \* position of the for loop over the languages
    target_data,     \* translate_sync: target_data; check_translations: translated_data
    to_translate,    \* translate_sync: to_translate
    chunks,          \* the list of chunks of the current language
    chunk_i,         \* position of the for loop over the chunks
    translated_data, \* translate_sync, translate_file: translated_data
    problems,        \* check_translations: problems
    en0,             \* history: en.json before the run
    files0,          \* history: {lang}.json before the run
    writes,          \* history: how often each file was written ("en" and the languages)
    art_writes,      \* history: how many error logs were written
    log,             \* history: per chunk processed, what the client did, what the
                     \* chunk function returned, whether an exception left the loop
    worksets,        \* history: per language, the work-set translate_sync computed
    result           \* history: per language, translated_data when its chunk loop ended

chunkVars == <<arg_data, arg_size, ret_chunks>>
diskVars == <<en_file, files, temp_files, artifacts>>
syncVars == <<updates, new_keys, target_data, to_translate>>
loopVars == <<lang_i, chunks, chunk_i, translated_data>>
histVars == <<en0, files0, writes, art_writes, log, worksets, result>>
vars == <<pc, chunkVars, en_data, diskVars, chunk_size, syncVars, loopVars,
          problems, histVars>>

LangSet == {Langs[i] : i \in 1..Len(Langs)}
NoFile == [exists |-> FALSE, data |-> <<>>]
File(d) == [exists |-> TRUE, data |-> d]

\* ------------------------------------------------- chunk_dict called alone
\* the ordered mappings over n keys: every order of every subset of the keys
RECURSIVE DictsOver(_, _, _)
DictsOver(keys, vals, n) ==
    IF n = 0 THEN {<<>>}
    ELSE LET shorter == DictsOver(keys, vals, n - 1)
         IN  shorter \cup
             {Append(d, <<k, v>>) :
                 d \in {e \in shorter : Len(e) = n - 1},
                 k \in keys, v \in vals}

ChunkInputs ==
    {d \in DictsOver({KeyAt(i) : i \in 1..MaxLen}, {"x", "y"}, MaxLen) : IsDict(d)}

InitChunk ==
    /\ pc = "call"
    /\ arg_data \in ChunkInputs
    /\ arg_size \in 1..MaxSize
    /\ ret_chunks = <<>>
    /\ en_data = <<>> /\ en_file = <<>> /\ en0 = <<>>
    /\ files = [l \in LangSet |-> NoFile] /\ files0 = files /\ temp_files = files
    /\ artifacts = {} /\ art_writes = 0
    /\ chunk_size = 1
    /\ updates = <<>> /\ new_keys = <<>> /\ target_data = <<>> /\ to_translate = <<>>
    /\ lang_i = 1 /\ chunks = <<>> /\ chunk_i = 1 /\ translated_data = <<>>
    /\ problems = <<>>
    /\ writes = [f \in LangSet \cup {"en"} |-> 0]
    /\ log = <<>>
    /\ worksets = [l \in LangSet |-> NoFile]
    /\ result = [l \in LangSet |-> NoFile]

CallChunkDict ==
    /\ pc = "call"
    /\ ret_chunks' = chunk_dict(arg_data, arg_size)
    /\ pc' = "returned"
    /\ UNCHANGED <<arg_data, arg_size, en_data, diskVars, chunk_size, syncVars,
                   loopVars, problems, histVars>>

NextChunk == CallChunkDict

SpecChunk == InitChunk /\ [][NextChunk]_vars

\* ------------------------------------------------------ Translation Client
\* What one call does: "ok" answers a JSON object with the chunk's keys, "short"
\* a JSON object that lacks the chunk's first key (the contract is not always
\* honoured), "call_error" is client.chat.completions.create raising, and
\* "bad_json" a text json.loads rejects.
Responses == {"ok", "short", "call_error", "bad_json"}
Raises(resp) == resp \in {"call_error", "bad_json"}
Outcome(resp) == IF Raises(resp) THEN "raised" ELSE resp

Answer(chunk, lang) == [i \in 1..Len(chunk) |-> <<chunk[i][1], Tr(chunk[i][2], lang)>>]

\* translate_chunk(chunk, target_language): [raised, value]
translate_chunk(chunk, lang, resp) ==
    [raised |-> Raises(resp),
     value  |-> IF resp = "ok" THEN Answer(chunk, lang)
                ELSE IF resp = "short" THEN Tail(Answer(chunk, lang))
                ELSE <<>>]

LogEntry(lang, idx, chunk, resp) ==
    [lang |-> lang, idx |-> idx, keys |-> Keys(chunk), outcome |-> Outcome(resp),
     answered |-> <<>>, returned |-> <<>>, escaped |-> FALSE]

\* --------------------------------------------------------- the input files
\* the String Tables of plain strings only, of up to m keys
PlainTables(m) ==
    {[i \in 1..n |-> <<KeyAt(i), Plain(KeyAt(i))>>] : n \in 0..m}

RECURSIVE TablesOfLen(_)
TablesOfLen(n) ==
    IF n = 0 THEN {<<>>}
    ELSE {Append(t, <<KeyAt(n), v>>) : t \in TablesOfLen(n - 1), v \in ValuesOf(KeyAt(n))}

\* the String Tables: keys a, b, ... in this order, every kind of value
Tables == UNION {TablesOfLen(n) : n \in 0..MaxKeys}

\* a Locale File that has an old translation of each of m keys
OldTable(m) == [i \in 1..m |-> <<KeyAt(i), "old_" \o KeyAt(i)>>]

\* a Locale File before the run: missing, or any of m keys with an old translation
LocaleFiles(m) ==
    {NoFile} \cup
    {File(SelectSeq(OldTable(m), LAMBDA it : it[1] \in S)) :
        S \in SUBSET Keys(OldTable(m))}

Lang == Langs[lang_i]

\* ---------------------------------------------------------- translate_sync
IsUpdate(v) == v.isdict /\ v.update
\* the JSON value of a String Table entry that is no dict
Raw(v) == v.text

InitSync ==
    /\ pc = "start"
    /\ arg_data = <<>> /\ arg_size = 1 /\ ret_chunks = <<>>
    /\ en_file \in Tables /\ en_data = <<>> /\ en0 = en_file
    /\ files \in [LangSet -> LocaleFiles(MaxKeys)] /\ files0 = files
    /\ temp_files = [l \in LangSet |-> NoFile]
    /\ artifacts = {} /\ art_writes = 0
    /\ chunk_size \in 1..MaxChunk
    /\ updates = <<>> /\ new_keys = <<>> /\ target_data = <<>> /\ to_translate = <<>>
    /\ lang_i = 1 /\ chunks = <<>> /\ chunk_i = 1 /\ translated_data = <<>>
    /\ problems = <<>>
    /\ writes = [f \in LangSet \cup {"en"} |-> 0]
    /\ log = <<>>
    /\ worksets = [l \in LangSet |-> NoFile]
    /\ result = [l \in LangSet |-> NoFile]

\* updates = {k: v for k, v in en_data.items() if isinstance(v, dict) and v.get("update")}
UpdatesOf(en) == SelectSeq(en, LAMBDA it : IsUpdate(it[2]))
\* new_keys = {k: v ... if k not in updates and not isinstance(v, dict)}
NewKeysOf(en, upd) == SelectSeq(en, LAMBDA it : ~Has(upd, it[1]) /\ ~it[2].isdict)

SyncStart ==
    /\ pc = "start"
    /\ en_data' = en_file
    /\ updates' = UpdatesOf(en_data')
    /\ new_keys' = NewKeysOf(en_data', updates')
    /\ pc' = "lang"
    /\ UNCHANGED <<chunkVars, diskVars, chunk_size, target_data, to_translate,
                   loopVars, problems, histVars>>

\* for key, value in new_keys.items(): if key not in target_data: to_translate[key] = value
FreshKeysUnfiltered(nk, td) == [i \in 1..Len(nk) |-> <<nk[i][1], Raw(nk[i][2])>>]
FreshKeysInverted(nk, td) ==
    LET present == SelectSeq(nk, LAMBDA it : Has(td, it[1]))
    IN  [i \in 1..Len(present) |-> <<present[i][1], Raw(present[i][2])>>]
FreshKeys(nk, td) ==
    LET absent == SelectSeq(nk, LAMBDA it : ~Has(td, it[1]))
    IN  [i \in 1..Len(absent) |-> <<absent[i][1], Raw(absent[i][2])>>]

\* update["text"] raises KeyError for a dict without "text"
TextRaises(u) == u.isdict /\ ~u.hastext
\* update["text"] if isinstance(update, dict) else update
TextOrRaw(u) == IF u.isdict THEN u.text ELSE Raw(u)

\* for key, update in updates.items(): if key in en_data: to_translate[key] = ...
ForcedRaises(upd, en) ==
    \E i \in 1..Len(upd) : Has(en, upd[i][1]) /\ TextRaises(upd[i][2])

RECURSIVE ForcedKeys(_, _, _, _)
ForcedKeys(tt, upd, en, td) ==
    IF upd = <<>> THEN tt
    ELSE ForcedKeys(
             IF Has(en, Head(upd)[1])
             THEN Put(tt, Head(upd)[1], TextOrRaw(Head(upd)[2])) ELSE tt,
             Tail(upd), en, td)

\* one language up to the chunk loop: load the Locale File, compute the
\* work-set, skip the language when it is empty
SyncPlan ==
    /\ pc = "lang"
    /\ lang_i <= Len(Langs)
    /\ target_data' = IF files[Lang].exists THEN files[Lang].data ELSE <<>>
    /\ IF ForcedRaises(updates, en_data)
       THEN \* KeyError leaves translate_sync: nothing more is written
            /\ to_translate' = FreshKeys(new_keys, target_data')
            /\ pc' = "crashed"
            /\ UNCHANGED <<loopVars, worksets>>
       ELSE /\ to_translate' = ForcedKeys(FreshKeys(new_keys, target_data'),
                                          updates, en_data, target_data')
            /\ worksets' = [worksets EXCEPT ![Lang] = File(to_translate')]
            /\ IF to_translate' = <<>>
               THEN /\ lang_i' = lang_i + 1
                    /\ UNCHANGED <<pc, chunks, chunk_i, translated_data>>
               ELSE /\ translated_data' = <<>>
                    /\ chunks' = chunk_dict(to_translate', chunk_size)
                    /\ chunk_i' = 1
                    /\ pc' = "chunk"
                    /\ UNCHANGED lang_i
    /\ UNCHANGED <<chunkVars, en_data, diskVars, chunk_size, updates, new_keys,
                   problems, en0, files0, writes, art_writes, log, result>>

\* one iteration of the chunk loop: try: translate_chunk, update; except: print
SyncChunk ==
    /\ pc = "chunk"
    /\ chunk_i <= Len(chunks)
    /\ \E resp \in Responses :
          LET r == translate_chunk(chunks[chunk_i], Lang, resp)
          IN  /\ translated_data' =
                     IF r.raised THEN translated_data
                     ELSE Update(translated_data, r.value)
              /\ log' = Append(log, LogEntry(Lang, chunk_i, chunks[chunk_i], resp))
    /\ chunk_i' = chunk_i + 1
    /\ UNCHANGED <<pc, chunkVars, en_data, diskVars, chunk_size, syncVars,
                   lang_i, chunks, problems, en0, files0, writes, art_writes, worksets,
                   result>>

\* after the chunk loop: target_data.update(translated_data), json.dump
SyncWrite ==
    /\ pc = "chunk"
    /\ chunk_i > Len(chunks)
    /\ target_data' = Update(target_data, translated_data)
    /\ files' = [files EXCEPT ![Lang] = File(target_data')]
    /\ writes' = [writes EXCEPT ![Lang] = @ + 1]
    /\ result' = [result EXCEPT ![Lang] = File(translated_data)]
    /\ lang_i' = lang_i + 1
    /\ pc' = "lang"
    /\ UNCHANGED <<chunkVars, en_data, en_file, temp_files, artifacts, chunk_size,
                   updates, new_keys, to_translate, chunks, chunk_i,
                   translated_data, problems, en0, files0, art_writes, log, worksets>>

\* en_data[key] = updates[key]["text"] if "text" in updates[key] else updates[key]
CollapsedKeepsRecord(u) == u
Collapsed(u) ==
    IF u.hastext
    THEN [isdict |-> FALSE, update |-> FALSE, hastext |-> FALSE, text |-> u.text]
    ELSE u

\* for key in updates: if isinstance(en_data[key], dict): en_data[key] = ...
RECURSIVE CleanUp(_, _)
CleanUp(en, upd) ==
    IF upd = <<>> THEN en
    ELSE CleanUp(
             IF Get(en, Head(upd)[1]).isdict
             THEN Put(en, Head(upd)[1], Collapsed(Head(upd)[2])) ELSE en,
             Tail(upd))

\* after the language loop: clean up the update markers and write en.json
SyncCleanup ==
    /\ pc = "lang"
    /\ lang_i > Len(Langs)
    /\ en_data' = CleanUp(en_data, updates)
    /\ en_file' = en_data'
    /\ writes' = [writes EXCEPT !["en"] = @ + 1]
    /\ pc' = "done"
    /\ UNCHANGED <<chunkVars, files, temp_files, artifacts, chunk_size, syncVars,
                   loopVars, problems, en0, files0, art_writes, log, worksets, result>>

NextSync == SyncStart \/ SyncPlan \/ SyncChunk \/ SyncWrite \/ SyncCleanup

SpecSync == InitSync /\ [][NextSync]_vars

\* ---------------------------------------------------------- translate_file
\* translate_file never reads a Locale File: one that is missing and one that
\* has every key are the two cases of what it overwrites.
InitBulk ==
    /\ pc = "start"
    /\ arg_data = <<>> /\ arg_size = 1 /\ ret_chunks = <<>>
    /\ en_file \in PlainTables(MaxBulkKeys) /\ en_data = <<>> /\ en0 = en_file
    /\ files \in [LangSet -> {NoFile, File(OldTable(MaxBulkKeys))}] /\ files0 = files
    /\ temp_files = [l \in LangSet |-> NoFile]
    /\ artifacts = {} /\ art_writes = 0
    /\ chunk_size \in 1..MaxChunk
    /\ updates = <<>> /\ new_keys = <<>> /\ target_data = <<>> /\ to_translate = <<>>
    /\ lang_i = 1 /\ chunks = <<>> /\ chunk_i = 1 /\ translated_data = <<>>
    /\ problems = <<>>
    /\ writes = [f \in LangSet \cup {"en"} |-> 0]
    /\ log = <<>>
    /\ worksets = [l \in LangSet |-> NoFile]
    /\ result = [l \in LangSet |-> NoFile]

\* original_data = json.load(f)
BulkStart ==
    /\ pc = "start"
    /\ en_data' = en_file
    /\ pc' = "lang"
    /\ UNCHANGED <<chunkVars, diskVars, chunk_size, syncVars, loopVars, problems,
                   histVars>>

\* the JSON texts of a chunk of original_data
Texts(chunk) == [i \in 1..Len(chunk) |-> <<chunk[i][1], Raw(chunk[i][2])>>]

\* one language up to the chunk loop
BulkLang ==
    /\ pc = "lang"
    /\ lang_i <= Len(Langs)
    /\ translated_data' = <<>>
    /\ chunks' = chunk_dict(en_data, chunk_size)
    /\ chunk_i' = 1
    /\ worksets' = [worksets EXCEPT ![Lang] = File(Texts(en_data))]
    /\ pc' = "chunk"
    /\ UNCHANGED <<chunkVars, en_data, diskVars, chunk_size, syncVars, lang_i,
                   problems, en0, files0, writes, art_writes, log, result>>

\* one iteration of the chunk loop: try: translate_chunk, update, write the
\* temp file; except: write {lang}_error_chunk_{idx+1}.log
BulkChunk ==
    /\ pc = "chunk"
    /\ chunk_i <= Len(chunks)
    /\ \E resp \in Responses :
          LET r == translate_chunk(Texts(chunks[chunk_i]), Lang, resp)
          IN  /\ log' = Append(log, LogEntry(Lang, chunk_i, chunks[chunk_i], resp))
              /\ IF r.raised
                 THEN /\ artifacts' = artifacts \cup {<<Lang, chunk_i>>}
                      /\ art_writes' = art_writes + 1
                      /\ UNCHANGED <<translated_data, temp_files>>
                 ELSE /\ translated_data' = Update(translated_data, r.value)
                      /\ temp_files' = [temp_files EXCEPT ![Lang] = File(translated_data')]
                      /\ UNCHANGED <<artifacts, art_writes>>
    /\ chunk_i' = chunk_i + 1
    /\ UNCHANGED <<pc, chunkVars, en_data, en_file, files, chunk_size, syncVars,
                   lang_i, chunks, problems, en0, files0, writes, worksets, result>>

\* after the chunk loop: write translated_data and remove the temp file, or
\* report that nothing was saved
BulkFinish ==
    /\ pc = "chunk"
    /\ chunk_i > Len(chunks)
    /\ IF translated_data # <<>>
       THEN /\ files' = [files EXCEPT ![Lang] = File(translated_data)]
            /\ writes' = [writes EXCEPT ![Lang] = @ + 1]
            /\ temp_files' = [temp_files EXCEPT ![Lang] = NoFile]
       ELSE UNCHANGED <<files, writes, temp_files>>
    /\ result' = [result EXCEPT ![Lang] = File(translated_data)]
    /\ lang_i' = lang_i + 1
    /\ pc' = "lang"
    /\ UNCHANGED <<chunkVars, en_data, en_file, artifacts, chunk_size, syncVars,
                   chunks, chunk_i, translated_data, problems, en0, files0,
                   art_writes, log, worksets>>

\* after the language loop translate_file returns
BulkReturn ==
    /\ pc = "lang"
    /\ lang_i > Len(Langs)
    /\ pc' = "done"
    /\ UNCHANGED <<chunkVars, en_data, diskVars, chunk_size, syncVars, loopVars,
                   problems, histVars>>

NextBulk == BulkStart \/ BulkLang \/ BulkChunk \/ BulkFinish \/ BulkReturn

SpecBulk == InitBulk /\ [][NextBulk]_vars

\* ------------------------------------------------------ check_translations
\* the values of a parsed review: "key": {"translation": ..., "issue": ...},
\* "key": {"issue": ...}, and the marker "error": content of a parse failure
Correction(k) == [isdict |-> TRUE, hastranslation |-> TRUE, translation |-> "fix_" \o k]
IssueOnly(k) == [isdict |-> TRUE, hastranslation |-> FALSE, translation |-> ""]
ErrorMarker == <<<<"error", [isdict |-> FALSE, hastranslation |-> FALSE, translation |-> ""]>>>>

\* What one review call does: "call_error" is client.chat.completions.create
\* raising, "parse_error" a text that json.loads rejects also after the
\* fallback, "not_object" a JSON text that is no object (problems.update
\* rejects it), "parsed" a JSON object.
QAResponses == {"call_error", "parse_error", "not_object", "parsed"}

\* the JSON objects a review of a chunk may answer: no issue, or one entry for
\* a key of the chunk, with or without a translation
Reviews(en_chunk) ==
    {<<>>} \cup {<<<<k, Correction(k)>>>> : k \in Keys(en_chunk)}
           \cup {<<<<k, IssueOnly(k)>>>> : k \in Keys(en_chunk)}

\* clean_quotes_and_escape(content): re.sub compiles the pattern, whose
\* look-behinds (?<="translation":\\s?) and (?<="issue":\\s?) match texts of
\* two widths; re rejects a look-behind that is not of fixed width with
\* re.error, for every content
LookBehindRejected == TRUE
clean_quotes_and_escape_raises(resp) == LookBehindRejected

\* check_translation_chunk(en_chunk, translated_chunk, target_language):
\* [raised, logged, value]; the parse error log is written before the marker
\* is returned
check_translation_chunk(en_chunk, resp, review) ==
    LET raised == resp = "call_error" \/ clean_quotes_and_escape_raises(resp)
    IN  [raised |-> raised,
         logged |-> ~raised /\ resp = "parse_error",
         value  |-> IF raised THEN <<>>
                    ELSE IF resp = "parsed" THEN review
                    ELSE IF resp = "parse_error" THEN ErrorMarker
                    ELSE <<>>]

\* problems.update(issues) raises for a JSON value that is no object
UpdateRaises(resp) == resp = "not_object"

\* for key, data in problems.items():
\*     if isinstance(data, dict) and "translation" in data: translated_data[key] = ...
RECURSIVE ApplyProblems(_, _)
ApplyProblems(td, probs) ==
    IF probs = <<>> THEN td
    ELSE ApplyProblems(
             IF Head(probs)[2].isdict /\ Head(probs)[2].hastranslation
             THEN Put(td, Head(probs)[1], Head(probs)[2].translation) ELSE td,
             Tail(probs))

InitQA ==
    /\ pc = "start"
    /\ arg_data = <<>> /\ arg_size = 1 /\ ret_chunks = <<>>
    /\ en_file \in PlainTables(MaxKeys) /\ en_data = <<>> /\ en0 = en_file
    /\ files \in [LangSet -> LocaleFiles(MaxKeys)] /\ files0 = files
    /\ temp_files = [l \in LangSet |-> NoFile]
    /\ artifacts = {} /\ art_writes = 0
    /\ chunk_size \in 1..MaxChunk
    /\ updates = <<>> /\ new_keys = <<>> /\ target_data = <<>> /\ to_translate = <<>>
    /\ lang_i = 1 /\ chunks = <<>> /\ chunk_i = 1 /\ translated_data = <<>>
    /\ problems = <<>>
    /\ writes = [f \in LangSet \cup {"en"} |-> 0]
    /\ log = <<>>
    /\ worksets = [l \in LangSet |-> NoFile]
    /\ result = [l \in LangSet |-> NoFile]

\* en_data = json.load(f)
QAStart ==
    /\ pc = "start"
    /\ en_data' = en_file
    /\ pc' = "lang"
    /\ UNCHANGED <<chunkVars, diskVars, chunk_size, syncVars, loopVars, problems,
                   histVars>>

\* one language up to the chunk loop: a missing Locale File is skipped
QALang ==
    /\ pc = "lang"
    /\ lang_i <= Len(Langs)
    /\ IF ~files[Lang].exists
       THEN /\ lang_i' = lang_i + 1
            /\ UNCHANGED <<pc, chunks, chunk_i, translated_data, problems>>
       ELSE /\ translated_data' = files[Lang].data
            /\ problems' = <<>>
            /\ chunks' = chunk_dict(en_data, chunk_size)
            /\ chunk_i' = 1
            /\ pc' = "chunk"
            /\ UNCHANGED lang_i
    /\ UNCHANGED <<chunkVars, en_data, diskVars, chunk_size, syncVars, histVars>>

\* one iteration of the chunk loop: check_translation_chunk, problems.update;
\* nothing catches what the call or the update raises
QAChunk ==
    /\ pc = "chunk"
    /\ chunk_i <= Len(chunks)
    /\ \E resp \in QAResponses, review \in Reviews(chunks[chunk_i]) :
          LET r == check_translation_chunk(chunks[chunk_i], resp, review)
              escapes == r.raised \/ UpdateRaises(resp)
          IN  /\ resp # "parsed" => review = <<>>
              /\ log' = Append(log,
                     [lang |-> Lang, idx |-> chunk_i, keys |-> Keys(chunks[chunk_i]),
                      outcome |-> resp, answered |-> review, returned |-> r.value,
                      escaped |-> escapes])
              /\ IF r.logged
                 THEN /\ artifacts' = artifacts \cup {<<Lang, 0>>}
                      /\ art_writes' = art_writes + 1
                 ELSE UNCHANGED <<artifacts, art_writes>>
              /\ IF escapes
                 THEN /\ pc' = "crashed"
                      /\ UNCHANGED <<problems, chunk_i>>
                 ELSE /\ problems' = Update(problems, r.value)
                      /\ chunk_i' = chunk_i + 1
                      /\ UNCHANGED pc
    /\ UNCHANGED <<chunkVars, en_data, en_file, files, temp_files, chunk_size,
                   syncVars, lang_i, chunks, translated_data, en0, files0, writes,
                   worksets, result>>

\* after the chunk loop: if problems: patch translated_data and write it
QAFinish ==
    /\ pc = "chunk"
    /\ chunk_i > Len(chunks)
    /\ IF problems # <<>>
       THEN /\ translated_data' = ApplyProblems(translated_data, problems)
            /\ files' = [files EXCEPT ![Lang] = File(translated_data')]
            /\ writes' = [writes EXCEPT ![Lang] = @ + 1]
       ELSE UNCHANGED <<translated_data, files, writes>>
    /\ result' = [result EXCEPT ![Lang] = File(problems)]
    /\ lang_i' = lang_i + 1
    /\ pc' = "lang"
    /\ UNCHANGED <<chunkVars, en_data, en_file, temp_files, artifacts, chunk_size,
                   syncVars, chunks, chunk_i, problems, en0, files0, art_writes,
                   log, worksets>>

\* after the language loop check_translations returns
QAReturn ==
    /\ pc = "lang"
    /\ lang_i > Len(Langs)
    /\ pc' = "done"
    /\ UNCHANGED <<chunkVars, en_data, diskVars, chunk_size, syncVars, loopVars,
                   problems, histVars>>

NextQA == QAStart \/ QALang \/ QAChunk \/ QAFinish \/ QAReturn

SpecQA == InitQA /\ [][NextQA]_vars

\* C1: chunk_dict, for every ordered mapping and every positive chunk size:
\* the chunks concatenated in order are the mapping (same keys, order and
\* values, no key in two chunks), every chunk has between 1 and chunk_size
\* entries, there are ceil(|M|/N) chunks, and the empty mapping gives none.
ChunkingExact ==
    pc = "returned" =>
        /\ Concat(ret_chunks) = arg_data
        /\ \A i, j \in 1..Len(ret_chunks) :
               i # j => Keys(ret_chunks[i]) \cap Keys(ret_chunks[j]) = {}
        /\ \A i \in 1..Len(ret_chunks) :
               Len(ret_chunks[i]) >= 1 /\ Len(ret_chunks[i]) <= arg_size
        /\ Len(ret_chunks) * arg_size >= Len(arg_data)
        /\ Len(ret_chunks) > 0 => (Len(ret_chunks) - 1) * arg_size < Len(arg_data)
        /\ arg_data = <<>> => ret_chunks = <<>>

\* a mapping of several chunks whose last chunk is short has been chunked
ChunkingWitness ==
    /\ pc = "returned"
    /\ Len(ret_chunks) >= 2
    /\ Len(ret_chunks[Len(ret_chunks)]) < arg_size

\* ------------------------------------------------------------ translate_sync
IsPlanned(l) == worksets[l].exists
WorkSet(l) == worksets[l].data
Before(l) == files0[l].data
EnKeys == Keys(en0)
DirectiveKeys == {en0[i][1] : i \in {j \in 1..Len(en0) : IsUpdate(en0[j][2])}}

\* C4: the work-set translate_sync computes for a locale holds no key that is
\* already in the Locale File, unless the key is an update directive of the
\* String Table; with no update directive and a Locale File that has every key
\* of the String Table the work-set is empty.
WorkSetUpperBound ==
    \A l \in LangSet :
        IsPlanned(l) =>
            /\ \A k \in Keys(WorkSet(l)) : Has(Before(l), k) => k \in DirectiveKeys
            /\ (DirectiveKeys = {} /\ EnKeys \subseteq Keys(Before(l)))
                   => WorkSet(l) = <<>>

\* a work-set has been computed that leaves out a translated plain key and
\* holds a translated directive key
WorkSetUpperBoundWitness ==
    \E l \in LangSet :
        /\ IsPlanned(l)
        /\ \E k \in EnKeys : Has(Before(l), k) /\ ~Has(WorkSet(l), k)
        /\ \E k \in DirectiveKeys : Has(Before(l), k) /\ Has(WorkSet(l), k)

\* the same with no directive and a complete Locale File
WorkSetEmptyWitness ==
    \E l \in LangSet :
        /\ IsPlanned(l) /\ EnKeys # {} /\ DirectiveKeys = {}
        /\ EnKeys \subseteq Keys(Before(l)) /\ WorkSet(l) = <<>>

\* C5: every String Table entry that is a record with update: true is in the
\* work-set of every locale, mapped to its text field (to the raw value when
\* it has none), whether or not the Locale File has the key, and computing
\* the work-set never fails for a directive without a text field.
UpdateDirectiveIncluded ==
    /\ pc # "crashed"
    /\ \A l \in LangSet :
           IsPlanned(l) =>
               \A i \in 1..Len(en0) :
                   IsUpdate(en0[i][2]) =>
                       /\ Has(WorkSet(l), en0[i][1])
                       /\ en0[i][2].hastext =>
                              Get(WorkSet(l), en0[i][1]) = en0[i][2].text

AllChunksHonoured == \A i \in 1..Len(log) : log[i].outcome = "ok"
PlainKeys(en) == {en[i][1] : i \in {j \in 1..Len(en) : ~en[j][2].isdict}}

\* C6: after a translate_sync run in which every chunk's translation succeeds
\* and returns exactly its chunk's keys, every key of the String Table whose
\* value is a plain string (before the run, or after its write-back) is in the
\* Locale File of every language.
LocaleComplete ==
    (pc = "done" /\ AllChunksHonoured) =>
        \A l \in LangSet :
            \A k \in PlainKeys(en0) \cup PlainKeys(en_file) : Has(files[l].data, k)

\* such a run has ended, and it translated a plain key a Locale File lacked
LocaleCompleteWitness ==
    /\ pc = "done" /\ AllChunksHonoured /\ log # <<>>
    /\ \E l \in LangSet :
           \E k \in PlainKeys(en0) : ~Has(Before(l), k) /\ Has(files[l].data, k)

\* C7: after translate_sync the String Table has the keys it had, in the same
\* order, every update directive {text, update: true} is its plain text, every
\* other value is unchanged, and the String Table is written exactly once,
\* after all languages have been processed.
StringTableWriteBack ==
    /\ writes["en"] <= 1
    /\ writes["en"] = 0 => en_file = en0
    /\ writes["en"] = 1 => pc = "done" /\ lang_i > Len(Langs)
    /\ pc = "done" =>
           /\ writes["en"] = 1
           /\ Len(en_file) = Len(en0)
           /\ \A i \in 1..Len(en0) :
                  /\ en_file[i][1] = en0[i][1]
                  /\ en_file[i][2] =
                         IF IsUpdate(en0[i][2]) /\ en0[i][2].hastext
                         THEN [isdict |-> FALSE, update |-> FALSE, hastext |-> FALSE,
                               text |-> en0[i][2].text]
                         ELSE en0[i][2]

\* a run has ended that collapsed a directive, kept another value and wrote a
\* Locale File
StringTableWriteBackWitness ==
    /\ pc = "done"
    /\ \E i, j \in 1..Len(en0) :
           /\ IsUpdate(en0[i][2]) /\ ~en_file[i][2].isdict
           /\ ~IsUpdate(en0[j][2])
    /\ \E l \in LangSet : writes[l] = 1

\* ------------------------------------------------- translate_sync, translate_file
IsFinished(l) == result[l].exists
Translated(l) == result[l].data
After(l) == files[l].data

\* C2: for every language the final Locale File is the Locale File as it was
\* before the run with this run's translated entries added or overwritten:
\* every key it had and that was not translated this run is still there with
\* its old value, and an existing Locale File is left untouched when no chunk
\* produced translated data; in translate_sync and in translate_file alike.
LocaleMergedIntoExisting ==
    \A l \in LangSet :
        IsFinished(l) =>
            /\ After(l) = Update(Before(l), Translated(l))
            /\ \A k \in Keys(Before(l)) \ Keys(Translated(l)) :
                   Has(After(l), k) /\ Get(After(l), k) = Get(Before(l), k)
            /\ (files0[l].exists /\ Translated(l) = <<>>) => files[l] = files0[l]

LogOf(l) == {i \in 1..Len(log) : log[i].lang = l}
Failed == {i \in 1..Len(log) : log[i].outcome = "raised"}

\* C3: when the Translation Client fails on a chunk (the call raises or the
\* response does not parse) the chunk's keys are not in the run's result,
\* exactly one error artifact is recorded for the chunk, the next chunk is
\* processed, and the keys of every chunk that succeeded are in the final
\* Locale File.
ChunkFailureIsolated ==
    /\ \A i \in Failed : <<log[i].lang, log[i].idx>> \in artifacts
    /\ art_writes = Cardinality(Failed)
    /\ Cardinality(artifacts) = Cardinality(Failed)
    /\ \A l \in LangSet :
           IsFinished(l) =>
               /\ {log[i].idx : i \in LogOf(l)}
                      = 1..Len(chunk_dict(WorkSet(l), chunk_size))
               /\ \A i \in LogOf(l) :
                      /\ log[i].outcome = "raised" =>
                             log[i].keys \cap Keys(Translated(l)) = {}
                      /\ log[i].outcome = "ok" => log[i].keys \subseteq Keys(After(l))

\* --------------------------------------------------------- check_translations
Escaped == {i \in 1..Len(log) : log[i].escaped}

\* C8: in the bulk, sync and QA passes a failure of the Translation Client
\* call or an unparseable response on one chunk never leaves that chunk: no
\* exception ends the run, and in the QA pass check_translation_chunk returns
\* the failure marker for a malformed response instead of raising.
FailureContained ==
    /\ Escaped = {}
    /\ \A i \in 1..Len(log) :
           log[i].outcome = "parse_error" => log[i].returned = ErrorMarker

RunOver == pc \in {"done", "crashed"}
\* the corrections the reviews of language l answered: <<key, translation>>
CorrectionsIn(review) ==
    {<<review[j][1], review[j][2].translation>> :
        j \in {n \in 1..Len(review) : review[n][2].hastranslation}}
Corrections(l) == UNION {CorrectionsIn(log[i].answered) : i \in LogOf(l)}
Differs(l, k) ==
    \/ Has(Before(l), k) # Has(After(l), k)
    \/ Has(Before(l), k) /\ Get(Before(l), k) # Get(After(l), k)

\* C9: after check_translations has processed a locale its Locale File
\* differs from what it was only at the keys of a returned Problem Record
\* entry with a translation field, where it has that translation: for the
\* Problem Record {"x": {"translation": t, "issue": i}} the file has x: t,
\* and entries without a translation field and the parse-failure marker
\* change nothing.
QAPatchSemantics ==
    \A l \in LangSet :
        /\ files[l].exists = files0[l].exists
        /\ \A k \in Keys(Before(l)) \cup Keys(After(l)) :
               Differs(l, k) => <<k, Get(After(l), k)>> \in Corrections(l)
        /\ RunOver =>
               \A c \in Corrections(l) : Has(After(l), c[1]) /\ Get(After(l), c[1]) = c[2]

Succeeded(l) == {i \in LogOf(l) : log[i].outcome # "raised"}

\* C11: the chunks of a language are processed in the order of chunk_dict,
\* and after each chunk that succeeds the result accumulated so far is written
\* to the language's intermediate file before the next chunk is started:
\* between chunks the intermediate file holds every chunk translated so far;
\* it is removed once the final Locale File is written.
Checkpointed ==
    /\ \A i \in 1..Len(log) :
           log[i].idx = Cardinality({j \in LogOf(log[i].lang) : j <= i})
    /\ (pc = "chunk" /\ Succeeded(Lang) # {}) =>
           /\ temp_files[Lang].exists
           /\ temp_files[Lang].data = translated_data
           /\ \A i \in LogOf(Lang) :
                  log[i].outcome = "ok" => log[i].keys \subseteq Keys(temp_files[Lang].data)
    /\ \A l \in LangSet :
           (IsFinished(l) /\ writes[l] > 0) => ~temp_files[l].exists

\* ------------------------------------------------------------ translate_sync
\* C12: every String Table entry that is no update directive (any value but a
\* record with update: true, a record with update: false included) and whose
\* key the Locale File lacks is in the work-set of that locale, with its value.
PlainEntryIncluded ==
    \A l \in LangSet :
        IsPlanned(l) =>
            \A i \in 1..Len(en0) :
                (~IsUpdate(en0[i][2]) /\ ~Has(Before(l), en0[i][1])) =>
                    /\ Has(WorkSet(l), en0[i][1])
                    /\ ~en0[i][2].isdict =>
                           Get(WorkSet(l), en0[i][1]) = Raw(en0[i][2])

\* C13: an update directive is collapsed to a plain string in the written
\* String Table only when its key was retranslated this run into the Locale
\* File of every language; when the chunk that held the key failed for a
\* language, the entry is still an update directive after the run.
NoLostForcedUpdate ==
    pc = "done" =>
        \A i \in 1..Len(en0) :
            (IsUpdate(en0[i][2]) /\ ~IsUpdate(en_file[i][2])) =>
                \A l \in LangSet :
                    /\ IsFinished(l)
                    /\ Has(Translated(l), en0[i][1])
                    /\ \A j \in LogOf(l) :
                           en0[i][1] \in log[j].keys => log[j].outcome # "raised"
====
